---- MODULE Spec2Model ----
(***************************************************************************)
(* A model of function_app.py: the timer-triggered run mta_alert_check and *)
(* the three functions it is built from (filter_seven_train_alerts,        *)
(* get_alert_details, send_alert_email).                                   *)
(*                                                                         *)
(* JSON values are tagged records [t, v]: t is the Python type of the      *)
(* decoded value ("dict", "list", "str", "null" for None) and v its        *)
(* payload (a function from present keys to values, a sequence, a string). *)
(* A Python call that may raise yields [exc, val]: exc is "None" or the    *)
(* name of the exception class raised.                                     *)
(***************************************************************************)
EXTENDS Integers, Sequences, FiniteSets, TLC

VARIABLES entry, pc, environ, arg, ret, response, alerts, seven_train_alerts,
          alert_details, log, sent, raised

vars == <<entry, pc, environ, arg, ret, response, alerts, seven_train_alerts,
          alert_details, log, sent, raised>>

-----------------------------------------------------------------------------
(* Python values *)

Null == [t |-> "null", v |-> 0]

Str(s) == [t |-> "str", v |-> s]

List(s) == [t |-> "list", v |-> s]

Dict(f) == [t |-> "dict", v |-> f]

EmptyDict == Dict([k \in {} |-> Null])

EmptyList == List(<<>>)

\* A dict built from a set of <<key, value>> pairs (keys distinct).
Obj(pairs) == Dict([k \in {p[1] : p \in pairs} |-> (CHOOSE p \in pairs : p[1] = k)[2]])

NoExc == "None"

Ok(x) == [exc |-> NoExc, val |-> x]

Raise(e) == [exc |-> e, val |-> Null]

\* Run F on the value of r unless r raised.
Then(r, F(_)) == IF r.exc # NoExc THEN r ELSE F(r.val)

\* d.get(k, default): only a dict has .get; a present key wins over the
\* default whatever its value (None included).
GetMissingKeyRaises(d, k, default) ==
    IF d.t # "dict" THEN Raise("AttributeError")
    ELSE IF k \in DOMAIN d.v THEN Ok(d.v[k]) ELSE Raise("KeyError")

Get(d, k, default) ==
    IF d.t # "dict" THEN Raise("AttributeError")
    ELSE IF k \in DOMAIN d.v THEN Ok(d.v[k]) ELSE Ok(default)

\* The characters of the strings that stand where a list is expected.
Chars(s) == CASE s = "" -> <<>>
              [] s = "A" -> <<Str("A")>>

\* `for x in c`: the elements of a list, the characters of a str; None is not
\* iterable.
Iter(c) == CASE c.t = "list" -> Ok(c.v)
             [] c.t = "str" -> Ok(Chars(c.v))
             [] c.t = "null" -> Raise("TypeError")

\* bool(x)
TruthyNotNone(x) == x.t # "null"

Truthy(x) == CASE x.t = "null" -> FALSE
               [] x.t = "str" -> x.v # ""
               [] x.t = "list" -> x.v # <<>>
               [] x.t = "dict" -> DOMAIN x.v # {}

\* str(x) inside an f-string
Format(x) == CASE x.t = "str" -> x.v
               [] x.t = "null" -> "None"

\* list.reverse()
ReverseIdentity(s) == s

Reverse(s) == [i \in 1..Len(s) |-> s[Len(s) + 1 - i]]

-----------------------------------------------------------------------------
(* get_alert_details *)

LANG == "en"

\* The loop `for translation in translations: if ...language == 'en': text;
\* break`, from position i on; the value is None when the loop ends unbroken.
RECURSIVE TranslationLoopLast(_, _, _)
TranslationLoopLast(translations, i, found) ==
    IF i > Len(translations) THEN Ok(found)
    ELSE Then(Get(translations[i], "language", Null), LAMBDA language :
            IF language = Str(LANG)
            THEN Then(Get(translations[i], "text", Null), LAMBDA text :
                      TranslationLoopLast(translations, i + 1, text))
            ELSE TranslationLoopLast(translations, i + 1, found))

RECURSIVE TranslationLoop(_, _, _)
TranslationLoop(translations, i, found) ==
    IF i > Len(translations) THEN Ok(found)
    ELSE Then(Get(translations[i], "language", Null), LAMBDA language :
            IF language = Str(LANG)
            THEN Get(translations[i], "text", Null)
            ELSE TranslationLoop(translations, i + 1, found))

\* header_text = None; header_translations = alert.get('header_text',
\* {}).get('translation', []); the loop.
header_text_of(alert) ==
    Then(Get(alert, "header_text", EmptyDict), LAMBDA h :
    Then(Get(h, "translation", EmptyList), LAMBDA header_translations :
    Then(Iter(header_translations), LAMBDA s :
    TranslationLoop(s, 1, Null))))

active_period_text_of(alert) ==
    Then(Get(alert, "transit_realtime.mercury_alert", EmptyDict), LAMBDA mercury_alert :
    Then(Get(mercury_alert, "human_readable_active_period", EmptyDict), LAMBDA p :
    Then(Get(p, "translation", EmptyList), LAMBDA period_translations :
    Then(Iter(period_translations), LAMBDA s :
    TranslationLoop(s, 1, Null)))))

get_alert_details(entity) ==
    Then(Get(entity, "alert", EmptyDict), LAMBDA alert :
    Then(header_text_of(alert), LAMBDA header_text :
    Then(active_period_text_of(alert), LAMBDA active_period_text :
    Ok(<<header_text, active_period_text>>))))

-----------------------------------------------------------------------------
(* filter_seven_train_alerts *)

SORT_ORDER == "MTASBWY:7:20"

\* The inner loop over informed_entities from position j on, for one entity:
\* seven_train_alerts after it. A match appends the entity and breaks.
RECURSIVE InformedLoopNoBreak(_, _, _, _)
InformedLoopNoBreak(entity, informed_entities, j, acc) ==
    IF j > Len(informed_entities) THEN Ok(acc)
    ELSE Then(Get(informed_entities[j], "transit_realtime.mercury_entity_selector", EmptyDict),
              LAMBDA mercury_entity_selector :
         Then(Get(mercury_entity_selector, "sort_order", Str("")), LAMBDA sort_order :
            IF sort_order = Str(SORT_ORDER)
            THEN InformedLoopNoBreak(entity, informed_entities, j + 1, Append(acc, entity))
            ELSE InformedLoopNoBreak(entity, informed_entities, j + 1, acc)))

RECURSIVE InformedLoop(_, _, _, _)
InformedLoop(entity, informed_entities, j, acc) ==
    IF j > Len(informed_entities) THEN Ok(acc)
    ELSE Then(Get(informed_entities[j], "transit_realtime.mercury_entity_selector", EmptyDict),
              LAMBDA mercury_entity_selector :
         Then(Get(mercury_entity_selector, "sort_order", Str("")), LAMBDA sort_order :
            IF sort_order = Str(SORT_ORDER) THEN Ok(Append(acc, entity))
            ELSE InformedLoop(entity, informed_entities, j + 1, acc)))

\* The body of the outer loop for one entity: seven_train_alerts after it.
EntityBody(entity, acc) ==
    Then(Get(entity, "alert", EmptyDict), LAMBDA alert :
    Then(Get(alert, "informed_entity", EmptyList), LAMBDA informed_entities :
    Then(Iter(informed_entities), LAMBDA s :
    InformedLoop(entity, s, 1, acc))))

\* The outer loop over entities from position i on.
RECURSIVE EntityLoop(_, _, _)
EntityLoop(entities, i, acc) ==
    IF i > Len(entities) THEN Ok(acc)
    ELSE Then(EntityBody(entities[i], acc), LAMBDA after :
              EntityLoop(entities, i + 1, after))

filter_seven_train_alerts(alerts_data) ==
    Then(Get(alerts_data, "entity", EmptyList), LAMBDA entities :
    Then(Iter(entities), LAMBDA s :
    EntityLoop(s, 1, <<>>)))

-----------------------------------------------------------------------------
(* send_alert_email *)

\* logging.info / logging.error: the format string and what fills it.
LogEntry(level, fmt, a) == [level |-> level, fmt |-> fmt, arg |-> a]

\* "-" * 50
SEPARATOR == "--------------------------------------------------"

\* datetime.now().strftime(...): one sample reading of the clock.
STAMP_MINUTE == "2025-01-01 13:00"

STAMP_SECOND == "2025-01-01 13:00:00 "

\* sep.join(parts)
RECURSIVE Join(_, _)
Join(parts, sep) ==
    IF parts = <<>> THEN ""
    ELSE IF Len(parts) = 1 THEN parts[1]
    ELSE parts[1] \o sep \o Join(Tail(parts), sep)

\* The loop over alerts: the lines of the plain text version, from position i.
RECURSIVE plain_text_alerts(_, _)
plain_text_alerts(details, i) ==
    IF i > Len(details) THEN <<>>
    ELSE <<"Alert: " \o Format(details[i][1]),
           "Active Period: " \o Format(details[i][2]),
           SEPARATOR>> \o plain_text_alerts(details, i + 1)

\* The loop over alerts: the blocks of the HTML version (indentation elided).
RECURSIVE html_alerts(_, _)
html_alerts(details, i) ==
    IF i > Len(details) THEN <<>>
    ELSE <<"<div style=\"margin-bottom: 20px;\"><p><strong>" \o Format(details[i][1])
           \o "</strong></p><p>Active Period: " \o Format(details[i][2])
           \o "</p><hr/></div>">> \o html_alerts(details, i + 1)

\* message["content"]; recipients and senderAddress are read from the
\* environment and take no part in any decision.
Message(details) ==
    [subject |-> "7 Train Service Alert Summary - " \o STAMP_MINUTE,
     plainText |-> Join(plain_text_alerts(details, 1), "\n"),
     html |-> "<html><body><h2>7 Train Service Alerts</h2>"
              \o "<p>The following service changes are currently in effect:</p>"
              \o Join(html_alerts(details, 1), "")
              \o "<p>This message was automatically generated at " \o STAMP_SECOND
              \o "</p></body></html>"]

\* What `await email_client.begin_send(message)` and poller.result() may do:
\* return, or raise (the service rejects the message; the poller of the
\* synchronous client cannot be awaited).
SendOutcomes == {NoExc, "HttpResponseError", "TypeError"}

\* send_alert_email(email_client, alerts) when the notifier answers `outcome`:
\* the exception it lets out, the begin_send calls it makes (message and
\* answer) and the lines it logs.
send_alert_emailNoGuard(details, outcome) ==
    [exc |-> NoExc,
     sent |-> <<[message |-> Message(details), outcome |-> outcome]>>,
     log |-> IF outcome = NoExc
             THEN <<LogEntry("info", "Email sent. Message Id: {result}", "id")>>
             ELSE <<LogEntry("error", "Failed to send email: {str(e)}", outcome)>>]

send_alert_emailReraises(details, outcome) ==
    IF ~Truthy(List(details)) THEN [exc |-> NoExc, sent |-> <<>>, log |-> <<>>]
    ELSE [exc |-> outcome,
          sent |-> <<[message |-> Message(details), outcome |-> outcome]>>,
          log |-> IF outcome = NoExc
                  THEN <<LogEntry("info", "Email sent. Message Id: {result}", "id")>>
                  ELSE <<LogEntry("error", "Failed to send email: {str(e)}", outcome)>>]

send_alert_email(details, outcome) ==
    IF ~Truthy(List(details)) THEN [exc |-> NoExc, sent |-> <<>>, log |-> <<>>]
    ELSE [exc |-> NoExc,
          sent |-> <<[message |-> Message(details), outcome |-> outcome]>>,
          log |-> IF outcome = NoExc
                  THEN <<LogEntry("info", "Email sent. Message Id: {result}", "id")>>
                  ELSE <<LogEntry("error", "Failed to send email: {str(e)}", outcome)>>]

-----------------------------------------------------------------------------
(* mta_alert_check: the pieces of its body *)

\* The loop of lines 183-190 from position i: the pairs kept, the lines
\* logged, and the exception get_alert_details raised, if any.
RECURSIVE DetailsLoopOr(_, _, _, _)
DetailsLoopOr(matched, i, details, lines) ==
    IF i > Len(matched) THEN [exc |-> NoExc, val |-> details, log |-> lines]
    ELSE LET r == get_alert_details(matched[i]) IN
         IF r.exc # NoExc THEN [exc |-> r.exc, val |-> details, log |-> lines]
         ELSE IF Truthy(r.val[1]) \/ Truthy(r.val[2])
              THEN DetailsLoopOr(matched, i + 1, Append(details, r.val),
                       lines \o <<LogEntry("info", "Alert: {header_text}", Format(r.val[1])),
                                  LogEntry("info", "Active Period: {active_period}", Format(r.val[2])),
                                  LogEntry("info", "---", "")>>)
              ELSE DetailsLoopOr(matched, i + 1, details, lines)

RECURSIVE DetailsLoop(_, _, _, _)
DetailsLoop(matched, i, details, lines) ==
    IF i > Len(matched) THEN [exc |-> NoExc, val |-> details, log |-> lines]
    ELSE LET r == get_alert_details(matched[i]) IN
         IF r.exc # NoExc THEN [exc |-> r.exc, val |-> details, log |-> lines]
         ELSE IF Truthy(r.val[1]) /\ Truthy(r.val[2])
              THEN DetailsLoop(matched, i + 1, Append(details, r.val),
                       lines \o <<LogEntry("info", "Alert: {header_text}", Format(r.val[1])),
                                  LogEntry("info", "Active Period: {active_period}", Format(r.val[2])),
                                  LogEntry("info", "---", "")>>)
              ELSE DetailsLoop(matched, i + 1, details, lines)

\* The exception classes of the model and their bases.
IsRequestException(e) ==
    e \in {"ConnectionError", "Timeout", "HTTPError", "requests.JSONDecodeError"}

IsValueError(e) == e \in {"requests.JSONDecodeError", "json.JSONDecodeError", "ValueError"}

\* The except clauses of lines 198-203, in order: whether one of them takes e.
CatchesRequestOnly(e) == IsRequestException(e)

\* Every class the model raises derives from Exception.
IsException(e) == e # NoExc

Catches(e) == IsRequestException(e) \/ IsValueError(e) \/ IsException(e)

\* The line the clause that takes e logs.
Handler(e) ==
    IF IsRequestException(e) THEN LogEntry("error", "Failed to fetch alerts: %s", e)
    ELSE IF IsValueError(e) THEN LogEntry("error", "Failed to parse JSON response: %s", e)
    ELSE LogEntry("error", "Unexpected error: %s", e)

-----------------------------------------------------------------------------
(* The inputs: feeds, entities and detail lists within the bounds *)

MaxEntities == 2

MaxInformed == 2

MaxTranslations == 2

MERCURY_ALERT == "transit_realtime.mercury_alert"

SELECTOR == "transit_realtime.mercury_entity_selector"

Seqs(S, n) == UNION {[1..k -> S] : k \in 0..n}

\* Sequences over Simple of length at most n, and those with one element
\* replaced by an element of Rich.
OneRich(Simple, Rich, n) ==
    Seqs(Simple, n) \cup
    {[j \in DOMAIN x[1] |-> IF j = x[2] THEN x[3] ELSE x[1][j]] :
        x \in {y \in Seqs(Simple, n) \X (1..n) \X Rich : y[2] <= Len(y[1])}}

\* A field that is absent, or present with one of the values.
Optional(k, values) == {{}} \cup {{<<k, x>>} : x \in values}

Tr(language, text) == Obj({<<"language", Str(language)>>, <<"text", Str(text)>>})

TranslationElems ==
    {Tr("en", "A"), Tr("en", "B"), Tr("fr", "C"), Obj({<<"language", Str("en")>>}),
     Obj({<<"text", Str("A")>>}), Null}

TranslationFields(elems) ==
    Optional("translation",
             {Null, Str("")} \cup {List(s) : s \in Seqs(elems, MaxTranslations)})

HeaderFields(elems) ==
    Optional("header_text", {Null} \cup {Obj(f) : f \in TranslationFields(elems)})

PeriodFields(elems) ==
    Optional(MERCURY_ALERT,
        {Null} \cup
        {Obj(g) : g \in Optional("human_readable_active_period",
                           {Null} \cup {Obj(f) : f \in TranslationFields(elems)})})

\* The arguments of get_alert_details.
ExtractEntities ==
    {Null, EmptyDict, Obj({<<"alert", Null>>})} \cup
    {Obj({<<"alert", Obj(h \cup p)>>}) :
        h \in HeaderFields(TranslationElems), p \in PeriodFields(TranslationElems)}

Sel(sort_order) == Obj({<<SELECTOR, Obj({<<"sort_order", Str(sort_order)>>})>>})

InformedElems ==
    {Sel(SORT_ORDER), Sel("MTASBWY:7:10"), EmptyDict, Obj({<<SELECTOR, EmptyDict>>}),
     Obj({<<SELECTOR, Null>>}), Null}

InformedFields ==
    Optional("informed_entity",
             {Null, Str(""), Str("A")} \cup {List(s) : s \in Seqs(InformedElems, MaxInformed)})

Header(text) == <<"header_text", Obj({<<"translation", List(<<Tr("en", text)>>)>>})>>

Period(text) ==
    <<MERCURY_ALERT,
      Obj({<<"human_readable_active_period", Obj({<<"translation", List(<<Tr("en", text)>>)>>})>>})>>

Informed(s) == <<"informed_entity", List(s)>>

\* Three well-formed entities: two on the route, with both texts, and one
\* that is not.
SimpleEntities ==
    {Obj({<<"alert", Obj({Informed(<<Sel(SORT_ORDER)>>), Header("A"), Period("P")})>>}),
     Obj({<<"alert", Obj({Informed(<<Sel("MTASBWY:7:10"), Sel(SORT_ORDER)>>),
                          Header("B"), Period("Q")})>>}),
     Obj({<<"alert", Obj({Informed(<<Sel("MTASBWY:7:10")>>), Header("C"), Period("R")})>>})}

FilterEntities ==
    {Null, EmptyDict, Obj({<<"alert", Null>>})} \cup
    {Obj({<<"alert", Obj(f)>>}) : f \in InformedFields}

FeedsOf(entities) ==
    {Null, EmptyDict, Obj({<<"entity", Null>>}), Obj({<<"entity", Str("")>>})} \cup
    {Obj({<<"entity", List(s)>>}) : s \in OneRich(SimpleEntities, entities, MaxEntities)}

\* The arguments of filter_seven_train_alerts.
FilterFeeds == FeedsOf(FilterEntities)

RunTranslationElems ==
    {Tr("en", "A"), Tr("fr", "C"), Tr("en", ""), Obj({<<"language", Str("en")>>})}

\* Entities on the route with every shape of header beside a full period, and
\* every shape of period beside a full header.
RunEntities ==
    {Null} \cup
    {Obj({<<"alert", Obj({Informed(<<Sel(SORT_ORDER)>>), Period("P")} \cup h)>>}) :
        h \in HeaderFields(RunTranslationElems)} \cup
    {Obj({<<"alert", Obj({Informed(<<Sel(SORT_ORDER)>>), Header("A")} \cup p)>>}) :
        p \in PeriodFields(RunTranslationElems)}

\* The feeds response.json() may return in a run.
RunFeeds == FeedsOf(RunEntities)

\* The lists send_alert_email is called with directly.
DetailLists == Seqs({<<Str("A"), Str("P")>>, <<Str("B"), Str("Q")>>}, MaxEntities)

-----------------------------------------------------------------------------
(* State *)

NoResponse == [get |-> "pending", json |-> "pending"]

\* What requests.get(url) followed by raise_for_status() may do.
GetOutcomes == {"ok", "ConnectionError", "Timeout", "HTTPError"}

\* What response.json() raises on a body that is not JSON: requests'
\* JSONDecodeError (a RequestException and a ValueError) or, before requests
\* 2.27, the json module's (a ValueError only).
JsonErrors == {"requests.JSONDecodeError", "json.JSONDecodeError"}

\* The state at the start of a run of mta_alert_check.
RunStart(env) ==
    /\ entry = "mta_alert_check"
    /\ pc = "start"
    /\ environ = env
    /\ arg = Null
    /\ ret = Ok(Null)
    /\ response = NoResponse
    /\ alerts = Null
    /\ seven_train_alerts = <<>>
    /\ alert_details = <<>>
    /\ log = <<>>
    /\ sent = <<>>
    /\ raised = NoExc

\* EMAIL_CONNECTION_STRING in os.environ: not set, set to something
\* from_connection_string rejects, or set to a usable value.
Environs == {"unset", "malformed", "valid"}

\* The state at a direct call of one of the three functions.
CallStart(f, a) ==
    /\ entry = f
    /\ pc = "call"
    /\ environ = "valid"
    /\ arg = a
    /\ ret = Ok(Null)
    /\ response = NoResponse
    /\ alerts = Null
    /\ seven_train_alerts = <<>>
    /\ alert_details = <<>>
    /\ log = <<>>
    /\ sent = <<>>
    /\ raised = NoExc

Init ==
    \/ \E env \in Environs : RunStart(env)
    \/ \E a \in FilterFeeds : CallStart("filter_seven_train_alerts", a)
    \/ \E a \in ExtractEntities : CallStart("get_alert_details", a)
    \/ \E a \in DetailLists : CallStart("send_alert_email", a)

-----------------------------------------------------------------------------
(* Direct calls *)

CallFilter ==
    /\ entry = "filter_seven_train_alerts" /\ pc = "call"
    /\ ret' = filter_seven_train_alerts(arg)
    /\ pc' = "returned"
    /\ UNCHANGED <<entry, environ, arg, response, alerts, seven_train_alerts,
                   alert_details, log, sent, raised>>

CallExtract ==
    /\ entry = "get_alert_details" /\ pc = "call"
    /\ ret' = get_alert_details(arg)
    /\ pc' = "returned"
    /\ UNCHANGED <<entry, environ, arg, response, alerts, seven_train_alerts,
                   alert_details, log, sent, raised>>

CallSend ==
    /\ entry = "send_alert_email" /\ pc = "call"
    /\ \E outcome \in SendOutcomes :
          LET r == send_alert_email(arg, outcome) IN
          /\ ret' = [exc |-> r.exc, val |-> Null]
          /\ sent' = r.sent
          /\ log' = r.log
    /\ pc' = "returned"
    /\ UNCHANGED <<entry, environ, arg, response, alerts, seven_train_alerts,
                   alert_details, raised>>

-----------------------------------------------------------------------------
(* mta_alert_check, step by step *)

InRun(at) == entry = "mta_alert_check" /\ pc = at

\* An exception raised inside the try block at lines 171-195: the clause that
\* takes it logs and the run goes on to line 205; one no clause takes leaves
\* the run.
Except(e, lines) ==
    IF Catches(e)
    THEN /\ log' = log \o lines \o <<Handler(e)>>
         /\ pc' = "completing"
         /\ raised' = raised
    ELSE /\ log' = log \o lines
         /\ pc' = "raised"
         /\ raised' = e

\* Lines 165-166.
Start ==
    /\ InRun("start")
    /\ log' = Append(log, LogEntry("info", "Alert check starting at: %s", "utc_timestamp"))
    /\ pc' = "config"
    /\ UNCHANGED <<entry, environ, arg, ret, response, alerts, seven_train_alerts,
                   alert_details, sent, raised>>

\* Line 168, outside the try block: os.environ[...] raises KeyError on an
\* unset variable.
LoadConfig ==
    /\ InRun("config")
    /\ IF environ = "unset"
       THEN pc' = "raised" /\ raised' = "KeyError"
       ELSE pc' = "client" /\ raised' = raised
    /\ UNCHANGED <<entry, environ, arg, ret, response, alerts, seven_train_alerts,
                   alert_details, log, sent>>

\* Line 169, outside the try block: from_connection_string raises ValueError
\* on a string it cannot parse.
CreateClient ==
    /\ InRun("client")
    /\ IF environ = "malformed"
       THEN pc' = "raised" /\ raised' = "ValueError"
       ELSE pc' = "fetch" /\ raised' = raised
    /\ UNCHANGED <<entry, environ, arg, ret, response, alerts, seven_train_alerts,
                   alert_details, log, sent>>

\* Lines 175-177.
Fetch ==
    /\ InRun("fetch")
    /\ \E outcome \in GetOutcomes :
          /\ response' = [response EXCEPT !.get = outcome]
          /\ IF outcome = "ok"
             THEN /\ log' = Append(log, LogEntry("info", "Fetching alerts from MTA...", ""))
                  /\ pc' = "parse"
                  /\ raised' = raised
             ELSE Except(outcome, <<LogEntry("info", "Fetching alerts from MTA...", "")>>)
    /\ UNCHANGED <<entry, environ, arg, ret, alerts, seven_train_alerts,
                   alert_details, sent>>

\* Line 178.
Parse ==
    /\ InRun("parse")
    /\ \/ \E e \in JsonErrors :
             /\ response' = [response EXCEPT !.json = e]
             /\ Except(e, <<>>)
             /\ alerts' = alerts
       \/ \E feed \in RunFeeds :
             /\ response' = [response EXCEPT !.json = "ok"]
             /\ alerts' = feed
             /\ pc' = "filter"
             /\ UNCHANGED <<log, raised>>
    /\ UNCHANGED <<entry, environ, arg, ret, seven_train_alerts, alert_details, sent>>

\* Lines 180-181.
Filter ==
    /\ InRun("filter")
    /\ LET r == filter_seven_train_alerts(alerts) IN
       IF r.exc # NoExc
       THEN Except(r.exc, <<>>) /\ seven_train_alerts' = seven_train_alerts
       ELSE /\ seven_train_alerts' = r.val
            /\ log' = Append(log, LogEntry("info",
                          "Found {len(seven_train_alerts)} alerts for the 7 train.",
                          ToString(Len(r.val))))
            /\ pc' = "extract"
            /\ raised' = raised
    /\ UNCHANGED <<entry, environ, arg, ret, response, alerts, alert_details, sent>>

\* Lines 183-190.
Extract ==
    /\ InRun("extract")
    /\ LET r == DetailsLoop(seven_train_alerts, 1, <<>>, <<>>) IN
       /\ alert_details' = r.val
       /\ IF r.exc # NoExc
          THEN Except(r.exc, r.log)
          ELSE /\ log' = log \o r.log
               /\ pc' = "notify"
               /\ raised' = raised
    /\ UNCHANGED <<entry, environ, arg, ret, response, alerts, seven_train_alerts, sent>>

\* Lines 192-195.
Notify ==
    /\ InRun("notify")
    /\ IF Truthy(List(alert_details))
       THEN \E outcome \in SendOutcomes :
               LET reversed == Reverse(alert_details)
                   r == send_alert_email(reversed, outcome)
               IN /\ alert_details' = reversed
                  /\ sent' = sent \o r.sent
                  /\ IF r.exc # NoExc
                     THEN Except(r.exc, r.log)
                     ELSE /\ log' = log \o r.log \o
                                    <<LogEntry("info", "Summary email notification sent.", "")>>
                          /\ pc' = "completing"
                          /\ raised' = raised
       ELSE /\ pc' = "completing"
            /\ UNCHANGED <<alert_details, sent, log, raised>>
    /\ UNCHANGED <<entry, environ, arg, ret, response, alerts, seven_train_alerts>>

\* Line 205.
Complete ==
    /\ InRun("completing")
    /\ log' = Append(log, LogEntry("info", "Alert check completed at: %s", "utc_timestamp"))
    /\ pc' = "done"
    /\ UNCHANGED <<entry, environ, arg, ret, response, alerts, seven_train_alerts,
                   alert_details, sent, raised>>

\* The next firing of the timer (line 158): a fresh run; nothing of the last
\* one is kept.
Tick ==
    /\ entry = "mta_alert_check" /\ pc \in {"done", "raised"}
    /\ pc' = "start"
    /\ response' = NoResponse
    /\ alerts' = Null
    /\ seven_train_alerts' = <<>>
    /\ alert_details' = <<>>
    /\ log' = <<>>
    /\ sent' = <<>>
    /\ raised' = NoExc
    /\ UNCHANGED <<entry, environ, arg, ret>>

Next ==
    \/ CallFilter
    \/ CallExtract
    \/ CallSend
    \/ Start
    \/ LoadConfig
    \/ CreateClient
    \/ Fetch
    \/ Parse
    \/ Filter
    \/ Extract
    \/ Notify
    \/ Complete
    \/ Tick

Spec == Init /\ [][Next]_vars

-----------------------------------------------------------------------------
(* The vocabulary of the properties: what a feed holds, read without the   *)
(* code's loops                                                            *)

\* The value at key k of d; None when d is no dict or has no such key.
Field(d, k) == IF d.t = "dict" /\ k \in DOMAIN d.v THEN d.v[k] ELSE Null

\* The elements of x; none when x is no list.
Elems(x) == IF x.t = "list" THEN x.v ELSE <<>>

InformedOf(entity) == Elems(Field(Field(entity, "alert"), "informed_entity"))

SortOrderOf(informed_entity) == Field(Field(informed_entity, SELECTOR), "sort_order")

MatchingInformed(entity) ==
    {j \in DOMAIN InformedOf(entity) : SortOrderOf(InformedOf(entity)[j]) = Str(SORT_ORDER)}

OnRoute(entity) == MatchingInformed(entity) # {}

HeaderTranslations(entity) ==
    Field(Field(Field(entity, "alert"), "header_text"), "translation")

PeriodTranslations(entity) ==
    Field(Field(Field(Field(entity, "alert"), MERCURY_ALERT),
                "human_readable_active_period"), "translation")

EnglishAt(translations) ==
    {i \in DOMAIN Elems(translations) : Field(Elems(translations)[i], "language") = Str(LANG)}

\* The text of the first "en" translation; None when there is none.
FirstEnglish(translations) ==
    IF EnglishAt(translations) = {} THEN Null
    ELSE Field(Elems(translations)[CHOOSE i \in EnglishAt(translations) :
                                      \A j \in EnglishAt(translations) : i <= j], "text")

DetailOf(entity) ==
    <<FirstEnglish(HeaderTranslations(entity)), FirstEnglish(PeriodTranslations(entity))>>

NonEmptyString(x) == x.t = "str" /\ x.v # ""

IsComplete(pair) == NonEmptyString(pair[1]) /\ NonEmptyString(pair[2])

\* The entities of a feed that are on the route, in feed order.
MatchedOf(feed) == SelectSeq(Elems(Field(feed, "entity")), OnRoute)

\* The complete (header, period) pairs of a feed, in feed order.
FeedPairs(feed) ==
    SelectSeq([i \in DOMAIN MatchedOf(feed) |-> DetailOf(MatchedOf(feed)[i])], IsComplete)

LastFirst(s) == [i \in DOMAIN s |-> s[Len(s) - i + 1]]

Called(f) == entry = f /\ pc = "returned"

Returned(f) == Called(f) /\ ret.exc = NoExc

RunErrorFormats ==
    {"Failed to fetch alerts: %s", "Failed to parse JSON response: %s", "Unexpected error: %s"}

\* A clause of lines 198-203 has logged in this run.
RunErrorLogged == \E i \in DOMAIN log : log[i].fmt \in RunErrorFormats

-----------------------------------------------------------------------------
(* The properties *)

\* C1: filter_seven_train_alerts returns exactly the entities with at least
\* one informed-entity whose selector sort_order is "MTASBWY:7:20", each once
\* however many of its informed-entities match, in feed order; the same holds
\* of seven_train_alerts in a run.
FilterReturnsRouteEntitiesInOrder ==
    /\ Returned("filter_seven_train_alerts") => ret.val = MatchedOf(arg)
    /\ (entry = "mta_alert_check" /\ pc \in {"extract", "notify"})
          => seven_train_alerts = MatchedOf(alerts)

\* A call that returned two different entities, one of them matching twice.
FilterWitness ==
    /\ Returned("filter_seven_train_alerts")
    /\ Len(ret.val) = 2
    /\ ret.val[1] # ret.val[2]
    /\ \E i \in DOMAIN ret.val : Cardinality(MatchingInformed(ret.val[i])) >= 2

\* C2: get_alert_details returns, for the header and for the active period
\* each on its own, the text of the first translation whose language is "en",
\* and None when the translations are absent or hold no "en" entry.
ExtractReturnsFirstEnglish ==
    Returned("get_alert_details") => ret.val = DetailOf(arg)

\* A call on an entity whose header has two "en" translations with different
\* texts and whose period has no translations.
ExtractWitness ==
    /\ Returned("get_alert_details")
    /\ \E i, j \in EnglishAt(HeaderTranslations(arg)) :
          /\ i < j
          /\ Field(Elems(HeaderTranslations(arg))[i], "text")
                # Field(Elems(HeaderTranslations(arg))[j], "text")
    /\ ret.val[1] # Null
    /\ PeriodTranslations(arg) = Null
    /\ ret.val[2] = Null

\* C3: a run that finds no complete pair never calls the notifier, and
\* send_alert_email called with an empty list returns without calling it.
NothingFoundNothingSent ==
    /\ (entry = "mta_alert_check" /\ alert_details = <<>>) => sent = <<>>
    /\ (entry = "mta_alert_check" /\ FeedPairs(alerts) = <<>>) => sent = <<>>
    /\ (Called("send_alert_email") /\ arg = <<>>) => (sent = <<>> /\ ret.exc = NoExc)

\* A finished run that matched entities and kept no pair.
NothingFoundWitness ==
    /\ entry = "mta_alert_check" /\ pc = "done"
    /\ ~RunErrorLogged
    /\ seven_train_alerts # <<>>
    /\ alert_details = <<>>
    /\ sent = <<>>

\* C4: every pair of the list mta_alert_check hands to send_alert_email has a
\* header and an active period; a matched entity that lacks one is not in it.
ForwardedPairsComplete ==
    entry = "mta_alert_check" =>
        /\ \A i \in DOMAIN alert_details :
              alert_details[i][1] # Null /\ alert_details[i][2] # Null
        /\ \A i \in DOMAIN sent : sent[i].message = Message(alert_details)

\* A run that sent a message and had dropped a matched entity.
ForwardedWitness ==
    /\ entry = "mta_alert_check" /\ pc = "completing"
    /\ sent # <<>>
    /\ Len(alert_details) < Len(seven_train_alerts)

\* C5: no exception leaves a run of mta_alert_check, whichever step raises.
NoErrorLeavesRun ==
    entry = "mta_alert_check" => (pc # "raised" /\ raised = NoExc)

\* The fetch or the parse of this run failed.
FetchFailed == response.get \notin {"pending", "ok"}

ParseFailed == response.json \notin {"pending", "ok"}

\* C6: when the fetch fails (transport error or non-2xx status) or the body
\* does not parse, the run logs the error, filters and extracts nothing,
\* never calls the notifier, and goes on to its end without raising.
FailedFetchEndsRunQuietly ==
    (entry = "mta_alert_check" /\ (FetchFailed \/ ParseFailed)) =>
        /\ \E i \in DOMAIN log : log[i].level = "error" /\ log[i].fmt \in RunErrorFormats
        /\ \A i \in DOMAIN log :
              log[i].fmt # "Found {len(seven_train_alerts)} alerts for the 7 train."
        /\ seven_train_alerts = <<>>
        /\ alert_details = <<>>
        /\ sent = <<>>
        /\ raised = NoExc
        /\ pc \in {"completing", "done"}
        /\ pc = "completing" => ENABLED Complete

\* A finished run whose body was not JSON, under a requests whose json()
\* raises the json module's error.
FailedParseWitness ==
    /\ entry = "mta_alert_check" /\ pc = "done"
    /\ response.json = "json.JSONDecodeError"
    /\ log[Len(log)].fmt = "Alert check completed at: %s"

\* The notifier raised on a message of this run.
SendFailed == \E i \in DOMAIN sent : sent[i].outcome # NoExc

\* C7: when the notifier raises, send_alert_email logs the failure and does
\* not re-raise; the run goes on to its completion log, the send is made once
\* only, and no except clause of the run is taken.
FailedSendDoesNotAbortRun ==
    /\ (entry = "mta_alert_check" /\ SendFailed) =>
          /\ \E i \in DOMAIN log :
                log[i].level = "error" /\ log[i].fmt = "Failed to send email: {str(e)}"
          /\ Len(sent) = 1
          /\ ~RunErrorLogged
          /\ raised = NoExc
          /\ pc \in {"completing", "done"}
          /\ pc = "completing" => ENABLED Complete
          /\ pc = "done" => log[Len(log)].fmt = "Alert check completed at: %s"
    /\ (Called("send_alert_email") /\ SendFailed) =>
          /\ ret.exc = NoExc
          /\ Len(sent) = 1
          /\ log = <<LogEntry("error", "Failed to send email: {str(e)}", sent[1].outcome)>>

\* A finished run whose send failed.
FailedSendWitness ==
    /\ entry = "mta_alert_check" /\ pc = "done"
    /\ SendFailed

\* The three lines of the plain text body for one pair, and the body for a
\* list of pairs in the order given.
PlainLines(pair) == <<"Alert: " \o pair[1].v, "Active Period: " \o pair[2].v, SEPARATOR>>

PlainBody(pairs) ==
    Join([k \in 1..(3 * Len(pairs)) |-> PlainLines(pairs[(k + 2) \div 3])[((k - 1) % 3) + 1]],
         "\n")

HtmlBlocks(pairs) ==
    Join([k \in DOMAIN pairs |->
             "<div style=\"margin-bottom: 20px;\"><p><strong>" \o pairs[k][1].v
             \o "</strong></p><p>Active Period: " \o pairs[k][2].v \o "</p><hr/></div>"], "")

HtmlBody(pairs) ==
    "<html><body><h2>7 Train Service Alerts</h2>"
    \o "<p>The following service changes are currently in effect:</p>"
    \o HtmlBlocks(pairs)
    \o "<p>This message was automatically generated at " \o STAMP_SECOND
    \o "</p></body></html>"

\* C8: send_alert_email renders the pairs in the order it is given them, and
\* a run gives it the complete pairs of the feed reversed: the pair of the
\* earliest matching entity comes last in the plain text and HTML bodies.
EmailListsFeedPairsLastFirst ==
    /\ entry = "mta_alert_check" =>
          \A i \in DOMAIN sent :
             /\ sent[i].message.plainText = PlainBody(LastFirst(FeedPairs(alerts)))
             /\ sent[i].message.html = HtmlBody(LastFirst(FeedPairs(alerts)))
    /\ Called("send_alert_email") =>
          \A i \in DOMAIN sent :
             /\ sent[i].message.plainText = PlainBody(arg)
             /\ sent[i].message.html = HtmlBody(arg)

\* A run that sent a message for a feed with two different complete pairs.
EmailOrderWitness ==
    /\ entry = "mta_alert_check" /\ pc = "done"
    /\ sent # <<>>
    /\ Len(FeedPairs(alerts)) = 2
    /\ FeedPairs(alerts)[1] # FeedPairs(alerts)[2]

\* Every field that is present has the type the feed gives it: fields may be
\* absent at any level, none is of another type.
Absent(d, k) == k \notin DOMAIN d.v

WellFormedTranslations(d) ==
    /\ d.t = "dict"
    /\ Absent(d, "translation")
       \/ /\ d.v["translation"].t = "list"
          /\ \A i \in DOMAIN d.v["translation"].v : d.v["translation"].v[i].t = "dict"

WellFormedInformed(ie) ==
    /\ ie.t = "dict"
    /\ Absent(ie, SELECTOR) \/ ie.v[SELECTOR].t = "dict"

WellFormedAlert(a) ==
    /\ a.t = "dict"
    /\ Absent(a, "informed_entity")
       \/ /\ a.v["informed_entity"].t = "list"
          /\ \A j \in DOMAIN a.v["informed_entity"].v :
                WellFormedInformed(a.v["informed_entity"].v[j])
    /\ Absent(a, "header_text") \/ WellFormedTranslations(a.v["header_text"])
    /\ Absent(a, MERCURY_ALERT)
       \/ /\ a.v[MERCURY_ALERT].t = "dict"
          /\ Absent(a.v[MERCURY_ALERT], "human_readable_active_period")
             \/ WellFormedTranslations(a.v[MERCURY_ALERT].v["human_readable_active_period"])

WellFormedEntity(e) ==
    /\ e.t = "dict"
    /\ Absent(e, "alert") \/ WellFormedAlert(e.v["alert"])

WellFormedFeed(f) ==
    /\ f.t = "dict"
    /\ Absent(f, "entity")
       \/ /\ f.v["entity"].t = "list"
          /\ \A i \in DOMAIN f.v["entity"].v : WellFormedEntity(f.v["entity"].v[i])

\* No informed-entity of the entity reaches a sort_order: the alert, the
\* informed_entity list, the selector or the sort_order is missing.
NoSortOrder(entity) ==
    \A j \in DOMAIN InformedOf(entity) : SortOrderOf(InformedOf(entity)[j]) = Null

\* C9: on a feed whose fields may be absent at any level, the filter does not
\* raise and leaves out an entity that reaches no sort_order, and
\* get_alert_details does not raise and yields None for a field whose
\* translations cannot be reached.
MissingFieldsNeverRaise ==
    /\ (Called("filter_seven_train_alerts") /\ WellFormedFeed(arg)) =>
          /\ ret.exc = NoExc
          /\ \A i \in DOMAIN Elems(Field(arg, "entity")) :
                NoSortOrder(Elems(Field(arg, "entity"))[i])
                   => \A k \in DOMAIN ret.val : ret.val[k] # Elems(Field(arg, "entity"))[i]
    /\ (Called("get_alert_details") /\ WellFormedEntity(arg)) =>
          /\ ret.exc = NoExc
          /\ HeaderTranslations(arg) = Null => ret.val[1] = Null
          /\ PeriodTranslations(arg) = Null => ret.val[2] = Null

\* A call of get_alert_details on an entity whose header_text has no
\* translation and whose alert has no vendor extension.
MissingFieldsWitness ==
    /\ Called("get_alert_details")
    /\ WellFormedEntity(arg)
    /\ Field(Field(arg, "alert"), "header_text") = EmptyDict
    /\ Absent(Field(arg, "alert"), MERCURY_ALERT)
    /\ ret = Ok(<<Null, Null>>)

\* C10: a run forwards the pair of a matched entity exactly when both texts
\* are non-empty strings: an empty or missing text of the first "en"
\* translation drops the pair, and when every pair is dropped nothing is sent.
OnlyNonEmptyPairsForwarded ==
    /\ (entry = "mta_alert_check" /\ pc = "notify") => alert_details = FeedPairs(alerts)
    /\ (entry = "mta_alert_check" /\ pc \in {"completing", "done"} /\ ~RunErrorLogged) =>
          /\ alert_details = LastFirst(FeedPairs(alerts))
          /\ sent = <<>> <=> FeedPairs(alerts) = <<>>

\* A finished run whose only matched entity has "" as its first "en" header.
EmptyTextWitness ==
    /\ entry = "mta_alert_check" /\ pc = "done"
    /\ ~RunErrorLogged
    /\ Len(seven_train_alerts) = 1
    /\ DetailOf(seven_train_alerts[1])[1] = Str("")
    /\ DetailOf(seven_train_alerts[1])[2] = Str("P")
    /\ alert_details = <<>>
    /\ sent = <<>>

====
